---- MODULE Spec2Model ----
(***************************************************************************)
(* A model of wepl's runtime linker/stubber (src/src/runtime.rs).          *)
(*                                                                         *)
(* The Runtime owns a wasmtime component Linker (the binding table), the   *)
(* primary component, the primary store and instance, and one long-lived   *)
(* donor store behind an Arc<Mutex<..>>.  The public operations are init,  *)
(* get_func, call_func, stub, set_component, compose and refresh.          *)
(*                                                                         *)
(* Library behaviour the model relies on (wasmtime component Linker, as    *)
(* configured by `linker.allow_shadowing(true)` at runtime.rs:40):         *)
(*   - func_new on a name that is already defined replaces the entry;      *)
(*   - instance(name) on a name that is already defined replaces the entry *)
(*     by a new, empty instance (the new definition shadows the old one),  *)
(*     see LinkerInstance below;                                           *)
(*   - instantiate fails when an import of the component has no            *)
(*     definition in the linker;                                           *)
(*   - an Instance used with a Store other than the one it was created in  *)
(*     panics ("object used with the wrong store");                        *)
(*   - Func::call clears the may_enter flag of its component instance and  *)
(*     only a successful post_return sets it again: after a trap, or an    *)
(*     error returned by a host function, the instance refuses every       *)
(*     later call ("cannot enter component instance").                     *)
(***************************************************************************)
EXTENDS Integers, Sequences, FiniteSets, TLC

(***************************************************************************)
(* Bounds of the model.                                                    *)
(***************************************************************************)
\* donor instances ever created in the shared donor store
MaxDonors == 2
\* calls that the donor instances take in one run
MaxCalls == 2

(***************************************************************************)
(* The universe of import paths.  A path is <<interface, item>>; the       *)
(* component root is the pseudo interface Root.                            *)
(***************************************************************************)
Root == "root"

WasiIfaces == {"wasi:cli"}

FuncPaths == {<<Root, "f">>, <<"i", "f">>, <<"i", "g">>, <<"wasi:cli", "w">>}

ResourcePaths == {<<"i", "r">>}

Paths == FuncPaths \cup ResourcePaths

IsWasi(p) == p[1] \in WasiIfaces

(***************************************************************************)
(* Handlers: the three classes of the binding table, a resource            *)
(* definition, and the absence of a definition.                            *)
(***************************************************************************)
NoHandler == [kind |-> "none"]

StubHandler(name) == [kind |-> "stub", name |-> name]

WasiHandler == [kind |-> "wasi"]

ResourceDef == [kind |-> "resource"]

DonorHandler(inst, func) == [kind |-> "donor", inst |-> inst, func |-> func]

VARIABLES
    component,  \* self.component: the primary, given by the set of its imports
    linker,     \* self.linker: [insts: defined instances, defs: path -> handler]
    store,      \* self.store: identity of the primary store
    instance,   \* self.instance: [store, comp, bind] of the last instantiation
    donors,     \* self.import_impls.store: the donor instances and their state
    guard,      \* the Mutex around the donor store: "free" or "held"
    pc,         \* position of the single thread of control
    cur,        \* the invocation in flight
    hist,       \* observation: per donor instance, dispatches and supersession
    last,       \* observation: the public operation last begun and its result
    query,      \* the arguments of a type check that is evaluated on its own
    answer      \* what that type check returned

\* the variables of the type checks; the runtime never touches them
tvars == <<query, answer>>

vars == <<component, linker, store, instance, donors, guard, pc, cur, hist, last,
          query, answer>>

NoQuery == [op |-> "none"]

NoAnswer == "none"


(***************************************************************************)
(* The binding table: wasmtime's component Linker with shadowing allowed.  *)
(***************************************************************************)
EmptyLinker == [insts |-> {}, defs |-> [p \in Paths |-> NoHandler]]

\* LinkerInstance::func_new / resource: define (or shadow) one entry.
FuncNew(lk, p, h) == [lk EXCEPT !.defs[p] = h]

\* Linker::instance(name) / root().instance(name): the definition of `name`
\* is (re)placed by a new empty instance; what the previous instance of that
\* name held is shadowed with it.
LinkerInstance(lk, name) ==
    [insts |-> lk.insts \cup {name},
     defs  |-> [p \in Paths |-> IF p[1] = name THEN NoHandler ELSE lk.defs[p]]]

\* wasmtime_wasi::add_to_linker_sync: every host-capability import is defined.
AddWasiToLinker(lk) ==
    [insts |-> lk.insts \cup WasiIfaces,
     defs  |-> [p \in Paths |-> IF IsWasi(p) THEN WasiHandler ELSE lk.defs[p]]]

\* Whether `def` can satisfy import `p`.
Satisfies(def, p) ==
    IF p \in ResourcePaths THEN def.kind = "resource"
    ELSE def.kind \in {"stub", "donor", "wasi"}

\* Linker::instantiate / instantiate_pre succeed iff every import is defined.
CanInstantiate(lk, comp) == \A p \in comp : Satisfies(lk.defs[p], p)

\* The handlers an instance of `comp` is created with: a snapshot.
Snapshot(lk, comp) == [p \in Paths |-> IF p \in comp THEN lk.defs[p] ELSE NoHandler]

(***************************************************************************)
(* Stores.  Only the identity of a store matters: an instance can be used  *)
(* with the store it was created in and with no other.  The one reference  *)
(* to a store that outlives `self.store` is the instance's, so build_store *)
(* yields an identity other than the one the instance refers to.           *)
(***************************************************************************)
StoreIds == {0, 1}

BuildStore(inst) == CHOOSE s \in StoreIds : s # inst.store

(***************************************************************************)
(* The introspection collaborator (crate::wit::WorldResolver) of the       *)
(* primary: a component is given by the set of its imports.                *)
(***************************************************************************)
\* resolver.imports_wasi_cli()
ImportsWasiCli(comp) == \E p \in comp : IsWasi(p)

\* resolver.imports(include_capabilities)
WorldImports(comp, includeCaps) ==
    IF includeCaps THEN comp ELSE {p \in comp : ~IsWasi(p)}

\* resolver.world_item_name(import_name): what a stub handler reports.  A
\* root function reports its own name, a function of an interface reports
\* the name of the interface.
WorldItemName(p) == IF p[1] = Root THEN p[2] ELSE p[1]

(***************************************************************************)
(* Runtime::init                                                           *)
(***************************************************************************)
PopulateStubs(lk, imports) ==
    [insts |-> lk.insts \cup {p[1] : p \in {q \in imports : q[1] # Root}},
     defs  |-> [p \in Paths |->
                  IF p \notin imports THEN
                      \* an instance that init opens is new and empty
                      IF \E q \in imports : q[1] = p[1] /\ p[1] # Root
                      THEN NoHandler ELSE lk.defs[p]
                  ELSE IF p \in ResourcePaths THEN ResourceDef
                  ELSE StubHandler(WorldItemName(p))]]

InitLinker_FlagNotNegated(comp) ==
    LET wasi == ImportsWasiCli(comp)
        lk1  == IF wasi THEN AddWasiToLinker(EmptyLinker) ELSE EmptyLinker
    IN  PopulateStubs(lk1, WorldImports(comp, wasi))

InitLinker(comp) ==
    LET wasi == ImportsWasiCli(comp)
        lk1  == IF wasi THEN AddWasiToLinker(EmptyLinker) ELSE EmptyLinker
    IN  PopulateStubs(lk1, WorldImports(comp, ~wasi))

\* The error kinds of section 7, by how they propagate.
ErrClass(err) ==
    CASE err = "" -> "ok"
      [] err = "ShapeMismatch" -> "shape"
      [] err \in {"UnknownImport", "UnknownExport", "ArityMismatch", "TypeMismatch",
                  "ReturnKindMismatch", "ReturnNameMismatch", "ReturnTypeMismatch",
                  "MissingExportFunction"} -> "validation"
      [] err \in {"LoadFailed", "DonorLoadFailed", "DonorMetadataFailed",
                  "DonorInstantiationFailed", "CompositionFailed"} -> "infrastructure"
      [] err = "InstantiationFailed" -> "refresh"
      [] OTHER -> "invocation"

\* what `last` records of a command: the operation and how it ended
Op(op, err) == [op |-> op, res |-> ErrClass(err)]

NoCall == [path |-> <<>>, handler |-> NoHandler, err |-> "", inner |-> NoHandler,
           cb |-> << >>]

\* components the shell may start with, and may hand to set_component
PrimaryComponents ==
    {{<<Root, "f">>, <<"i", "f">>, <<"i", "g">>},
     {<<"i", "f">>, <<"i", "r">>},
     {<<Root, "f">>, <<"wasi:cli", "w">>}}

\* component bytes: `ok` is whether the engine can load them
Bytes(comp) == [ok |-> TRUE, imports |-> comp]

\* Runtime::init: the runtime it returns
RuntimeNew(comp) ==
    /\ CanInstantiate(InitLinker(comp), comp)
    /\ component = comp
    /\ linker = InitLinker(comp)
    /\ store = 0
    /\ instance = [store |-> 0, comp |-> comp, bind |-> Snapshot(InitLinker(comp), comp),
                   may_enter |-> TRUE]
    /\ donors = << >>
    /\ guard = "free"
    /\ pc = "idle"
    /\ cur = NoCall
    /\ hist = << >>
    /\ last = Op("init", "")

RuntimeInit(comp) ==
    /\ RuntimeNew(comp)
    /\ query = NoQuery
    /\ answer = NoAnswer

Init == \E comp \in PrimaryComponents : RuntimeInit(comp)

(***************************************************************************)
(* Runtime::refresh: a new store, then the primary instantiated in it.     *)
(* Returns the new [store, instance, err]; on failure the store has        *)
(* already been replaced and the instance is the previous one.             *)
(***************************************************************************)
Refresh_KeepsBindings(lk, comp, st, inst) ==
    LET s == BuildStore(inst) IN
    IF CanInstantiate(lk, comp)
    THEN [store |-> s,
          instance |-> [store |-> s, comp |-> comp, bind |-> inst.bind,
                        may_enter |-> TRUE],
          err |-> ""]
    ELSE [store |-> s, instance |-> inst, err |-> "InstantiationFailed"]

Refresh_Restubs(lk, comp, st, inst) ==
    LET s == BuildStore(inst) IN
    IF CanInstantiate(lk, comp)
    THEN [store |-> s,
          instance |-> [store |-> s, comp |-> comp,
                        bind |-> Snapshot(PopulateStubs(lk, comp), comp),
                        may_enter |-> TRUE],
          err |-> ""]
    ELSE [store |-> s, instance |-> inst, err |-> "InstantiationFailed"]

Refresh(lk, comp, st, inst) ==
    LET s == BuildStore(inst) IN
    IF CanInstantiate(lk, comp)
    THEN [store |-> s,
          instance |-> [store |-> s, comp |-> comp, bind |-> Snapshot(lk, comp),
                        may_enter |-> TRUE],
          err |-> ""]
    ELSE [store |-> s, instance |-> inst, err |-> "InstantiationFailed"]

(***************************************************************************)
(* Runtime::set_component and Runtime::compose                             *)
(***************************************************************************)
\* set_component: the component is replaced first, then refresh.  `op` is
\* what the observation `last` records of the command.
SetComponentEffect(bytes, op) ==
    IF ~bytes.ok
    THEN /\ last' = Op(op, "LoadFailed")
         /\ UNCHANGED <<component, store, instance>>
    ELSE LET r == Refresh(linker, bytes.imports, store, instance) IN
         /\ component' = bytes.imports
         /\ store' = r.store
         /\ instance' = r.instance
         /\ last' = Op(op, r.err)

SetComponent(bytes) ==
    /\ pc = "idle"
    /\ SetComponentEffect(bytes, "set_component")
    /\ UNCHANGED <<linker, donors, guard, pc, cur, hist>>
    /\ UNCHANGED tvars

\* adapters: what the adapter exports is taken off the primary's imports,
\* what it imports is added to them; `ok` is whether the composer accepts it
Adapters ==
    {[ok |-> TRUE, exports |-> {<<"i", "f">>, <<"i", "g">>, <<"i", "r">>}, imports |-> {}],
     [ok |-> FALSE, exports |-> {}, imports |-> {}]}

\* wasm_compose's ComponentComposer::compose
Composed(comp, a) == Bytes((comp \ a.exports) \cup a.imports)

Compose(adapter) ==
    /\ pc = "idle"
    /\ IF ~adapter.ok
       THEN /\ last' = Op("compose", "CompositionFailed")
            /\ UNCHANGED <<component, store, instance>>
       ELSE SetComponentEffect(Composed(component, adapter), "compose")
    /\ UNCHANGED <<linker, donors, guard, pc, cur, hist>>
    /\ UNCHANGED tvars

(***************************************************************************)
(* Types (wit_parser::Type, TypeDefKind) and the metadata universe of a    *)
(* component (crate::wit::WorldResolver).  A type is a primitive or an     *)
(* identifier; an identifier belongs to the arena of the universe that     *)
(* issued it, and type_by_id finds nothing for an identifier of another    *)
(* arena.                                                                  *)
(***************************************************************************)
Prim(n) == [k |-> "prim", n |-> n]

TypeId(arena, idx) == [k |-> "id", arena |-> arena, idx |-> idx]

\* Option::None, for an absent payload or an identifier that does not resolve
NoType == [k |-> "none"]

\* TypeDefKind::Type, List, Result, Variant, Record
AliasOf(t) == [kind |-> "type", ty |-> t]

ListOf(t) == [kind |-> "list", ty |-> t]

ResultOf(ok, err) == [kind |-> "result", ok |-> ok, err |-> err]

Case(name, ty) == [name |-> name, ty |-> ty]

VariantOf(cases) == [kind |-> "variant", cases |-> cases]

RecordOf(fields) == [kind |-> "record", fields |-> fields]

\* the universe of the primary
PrimaryResolver ==
    [arena |-> "p",
     types |-> << AliasOf(Prim("u32")),
                  ListOf(Prim("u32")),
                  ResultOf(Prim("u32"), Prim("string")),
                  VariantOf(<<Case("a", Prim("u32")), Case("b", NoType)>>),
                  RecordOf(<<Case("x", Prim("u32"))>>),
                  AliasOf(TypeId("p", 2)),
                  ListOf(TypeId("p", 1)) >>]

\* the universe of a donor: the same structural types under other
\* identifiers, and some that differ in a case name, an arity or a payload
DonorResolver ==
    [arena |-> "d",
     types |-> << ListOf(Prim("u32")),
                  AliasOf(Prim("u32")),
                  VariantOf(<<Case("a", Prim("u32")), Case("c", NoType)>>),
                  VariantOf(<<Case("a", Prim("u32")), Case("b", NoType)>>),
                  ResultOf(Prim("u32"), NoType),
                  ResultOf(Prim("u32"), Prim("string")),
                  RecordOf(<<Case("x", Prim("u32"))>>),
                  VariantOf(<<Case("a", Prim("u32"))>>),
                  VariantOf(<<Case("a", NoType), Case("b", NoType)>>),
                  ListOf(Prim("string")) >>]

Resolvers == {PrimaryResolver, DonorResolver}

\* the well-formed types of a universe
TypesOf(r) ==
    {Prim("u32"), Prim("string")} \cup {TypeId(r.arena, i) : i \in DOMAIN r.types}

\* resolver.type_by_id(id): None for an identifier of another arena
TypeById(r, id) ==
    IF id.arena = r.arena /\ id.idx \in DOMAIN r.types THEN r.types[id.idx] ELSE NoType

(***************************************************************************)
(* types_equal and type_defs_equal (runtime.rs:493-563).  The result is    *)
(* "equal", "unequal", or "panic" when an `unwrap()` meets None.           *)
(***************************************************************************)
RECURSIVE TypesEqual(_, _, _, _)
RECURSIVE TypeDefsEqual(_, _, _, _)
RECURSIVE CasesEqual(_, _, _, _)

BoolOf(b) == IF b THEN "equal" ELSE "unequal"

\* match (&r1.ok, &r2.ok) / (&c1.ty, &c2.ty)
PayloadsEqual(r1, o1, r2, o2) ==
    IF o1 = NoType /\ o2 = NoType THEN "equal"
    ELSE IF o1 # NoType /\ o2 # NoType THEN TypesEqual(r1, o1, r2, o2)
    ELSE "unequal"

\* runtime.rs:533-543: oks and errs are both computed, then combined
ResultsEqual(r1, d1, r2, d2) ==
    LET oks  == PayloadsEqual(r1, d1.ok, r2, d2.ok)
        errs == PayloadsEqual(r1, d1.err, r2, d2.err)
    IN  IF oks = "panic" \/ errs = "panic" THEN "panic"
        ELSE BoolOf(oks = "equal" /\ errs = "equal")

\* runtime.rs:552-559: `all` over the zipped cases stops at the first pair
\* that differs; the payloads of a pair are compared before its names
CasesEqual(r1, c1, r2, c2) ==
    IF c1 = << >> THEN "equal"
    ELSE LET tys == PayloadsEqual(r1, Head(c1).ty, r2, Head(c2).ty)
         IN  IF tys = "panic" THEN "panic"
             ELSE IF Head(c1).name = Head(c2).name /\ tys = "equal"
                  THEN CasesEqual(r1, Tail(c1), r2, Tail(c2))
                  ELSE "unequal"

VariantsEqual(r1, d1, r2, d2) ==
    IF Len(d1.cases) # Len(d2.cases) THEN "unequal"
    ELSE CasesEqual(r1, d1.cases, r2, d2.cases)

TypeDefsEqual_OtherwiseEqual(r1, d1, r2, d2) ==
    IF d1.kind = "result" /\ d2.kind = "result" THEN ResultsEqual(r1, d1, r2, d2)
    ELSE IF d1.kind = "list" /\ d2.kind = "list" THEN TypesEqual(r1, d1.ty, r2, d2.ty)
    ELSE IF d1.kind = "variant" /\ d2.kind = "variant" THEN VariantsEqual(r1, d1, r2, d2)
    ELSE "equal"

TypeDefsEqual(r1, d1, r2, d2) ==
    IF d1.kind = "result" /\ d2.kind = "result" THEN ResultsEqual(r1, d1, r2, d2)
    ELSE IF d1.kind = "list" /\ d2.kind = "list" THEN TypesEqual(r1, d1.ty, r2, d2.ty)
    ELSE IF d1.kind = "variant" /\ d2.kind = "variant" THEN VariantsEqual(r1, d1, r2, d2)
    ELSE "unequal"

TypesEqual(r1, t1, r2, t2) ==
    IF t1.k = "id" /\ t2.k = "id" THEN
        LET d1 == TypeById(r1, t1)
            d2 == TypeById(r2, t2)
        IN  IF d1 = NoType \/ d2 = NoType THEN "panic"
            ELSE TypeDefsEqual(r1, d1, r2, d2)
    ELSE IF t1.k = "id" THEN
        LET d1 == TypeById(r1, t1)
        IN  IF d1 = NoType THEN "panic"
            ELSE IF d1.kind = "type" THEN TypesEqual(r1, d1.ty, r2, t2)
            ELSE "unequal"
    ELSE IF t2.k = "id" THEN
        \* runtime.rs:514 looks t2 up in resolver1
        LET d2 == TypeById(r1, t2)
        IN  IF d2 = NoType THEN "panic"
            ELSE IF d2.kind = "type" THEN TypesEqual(r1, t1, r2, d2.ty)
            ELSE "unequal"
    ELSE BoolOf(t1 = t2)

\* The structure of a type with every identifier resolved in its own
\* universe and every transparent alias replaced by its target: what
\* section 4.3 compares.
RECURSIVE Structure(_, _)
Structure(r, t) ==
    IF t.k # "id" THEN t
    ELSE LET d == r.types[t.idx] IN
         CASE d.kind = "type" -> Structure(r, d.ty)
           [] d.kind = "list" -> ListOf(Structure(r, d.ty))
           [] d.kind = "result" -> ResultOf(Structure(r, d.ok), Structure(r, d.err))
           [] d.kind = "variant" ->
                VariantOf([i \in DOMAIN d.cases |->
                              Case(d.cases[i].name, Structure(r, d.cases[i].ty))])
           [] d.kind = "record" ->
                RecordOf([i \in DOMAIN d.fields |->
                             Case(d.fields[i].name, Structure(r, d.fields[i].ty))])

(***************************************************************************)
(* Signatures (wit_parser::Function): ordered named parameters, and        *)
(* results that are named or anonymous.                                    *)
(***************************************************************************)
Param(name, ty) == [name |-> name, ty |-> ty]

Named(list) == [kind |-> "named", list |-> list]

Anon(ty) == [kind |-> "anon", list |-> <<Param("", ty)>>]

Sig(params, results) == [params |-> params, results |-> results]

SigUnit == Sig(<< >>, Named(<< >>))

SigF == Sig(<<Param("a", Prim("u32"))>>, Anon(Prim("u32")))

SigG == Sig(<<Param("a", Prim("u32")), Param("b", Prim("u32"))>>, Named(<<Param("v", Prim("u32"))>>))

\* the signature of an import of the primary
ImportSig(p) ==
    CASE p = <<"i", "f">> -> SigF
      [] p = <<"i", "g">> -> SigG
      [] OTHER -> SigUnit

\* declaration order of the functions of an interface
FuncOrder == <<"f", "g", "w">>

\* resolver.imported_interface(name).functions, in declaration order
ImportedFunctions(comp, iface) ==
    SelectSeq(FuncOrder, LAMBDA n : <<iface, n>> \in comp \cap FuncPaths)

\* resolver.imported_interface(name) is Some
ImportsInterface(comp, iface) ==
    iface # Root /\ \E p \in comp : p[1] = iface

(***************************************************************************)
(* Donor components.                                                       *)
(***************************************************************************)
DonorBytes == {"dGood", "dBad", "dNoInst", "dJunk"}

\* load_component / WorldResolver::from_bytes succeed
DonorLoads(d) == d # "dJunk"

\* what a donor imports: host capabilities, or (dNoInst) an interface that
\* the host capabilities do not provide
DonorImports(d) ==
    CASE d \in {"dGood", "dBad"} -> {<<"wasi:cli", "w">>}
      [] d = "dNoInst" -> {<<"i", "f">>}
      [] OTHER -> {}

\* a stub instantiates its donor against the primary's binding table
DonorLinker_PrimaryTable == linker

\* Linker::<ImportImplsContext>::new(&self.engine) and add_to_linker_sync:
\* the donor's linker defines the host capabilities and nothing else
DonorLinker == AddWasiToLinker(EmptyLinker)

\* linker.instantiate of the donor against the donor's linker succeeds
DonorInstantiates(d) == DonorLoads(d) /\ CanInstantiate(DonorLinker, DonorImports(d))

GoodExports ==
    {[path |-> <<Root, "f">>, sig |-> SigUnit],
     [path |-> <<"i", "f">>, sig |-> SigF],
     [path |-> <<"i", "g">>, sig |-> SigG]}

BadExports ==
    {[path |-> <<Root, "f">>, sig |-> Sig(<<Param("a", Prim("u32"))>>, Named(<< >>))],
     [path |-> <<Root, "g">>, sig |-> Sig(<< >>, Anon(Prim("u32")))],
     \* i: g has one parameter fewer
     [path |-> <<"i", "f">>, sig |-> SigF],
     [path |-> <<"i", "g">>, sig |-> Sig(<<Param("a", Prim("u32"))>>, Named(<<Param("v", Prim("u32"))>>))],
     \* j: f takes a string
     [path |-> <<"j", "f">>, sig |-> Sig(<<Param("a", Prim("string"))>>, Anon(Prim("u32")))],
     [path |-> <<"j", "g">>, sig |-> SigG],
     \* k: f returns a named result
     [path |-> <<"k", "f">>, sig |-> Sig(SigF.params, Named(<<Param("v", Prim("u32"))>>))],
     [path |-> <<"k", "g">>, sig |-> SigG],
     \* m: f is missing
     [path |-> <<"m", "g">>, sig |-> SigG]}

DonorExports(d) ==
    CASE d \in {"dGood", "dNoInst"} -> GoodExports
      [] d = "dBad" -> BadExports
      [] OTHER -> {}

DonorExportPaths(d) == {e.path : e \in DonorExports(d)}

DonorSig(d, q) == (CHOOSE e \in DonorExports(d) : e.path = q).sig

\* other.exported_interface(name) is Some
ExportsInterface(d, iface) ==
    iface # Root /\ \E q \in DonorExportPaths(d) : q[1] = iface

(***************************************************************************)
(* Identifiers of the command language (parser::Ident).                    *)
(***************************************************************************)
Item(iface, item) == [shape |-> "item", iface |-> iface, item |-> item]

Interface(iface) == [shape |-> "interface", iface |-> iface, item |-> ""]

ImportIdents ==
    {Item(Root, "f"), Item("i", "f"), Item("i", "g"), Interface("i")}

\* the donors a stub command names, each with the exports it is asked for
DonorCommands ==
    {<<Item(Root, "f"), "dGood">>, <<Item(Root, "g"), "dGood">>,
     <<Item("i", "f"), "dGood">>, <<Item("i", "g"), "dGood">>,
     <<Interface("i"), "dGood">>, <<Interface("j"), "dGood">>,
     <<Item(Root, "f"), "dBad">>, <<Item(Root, "g"), "dBad">>,
     <<Interface("i"), "dBad">>, <<Interface("j"), "dBad">>,
     <<Interface("k"), "dBad">>, <<Interface("m"), "dBad">>,
     <<Item(Root, "f"), "dNoInst">>, <<Interface("i"), "dNoInst">>,
     <<Item(Root, "f"), "dJunk">>, <<Interface("i"), "dJunk">>}

\* the stub commands of a run: <<import identifier, <<export identifier,
\* donor>>>>, one or more for every way a stub can end
StubCommands ==
    {x \in ImportIdents \X DonorCommands :
        \/ x[1] = Item(Root, "f") /\ x[2][1].shape = "item" /\ x[2][1].iface = Root
        \/ x[1].shape = "item" /\ x[1].iface = "i" /\ x[2] = <<x[1], "dGood">>
        \/ x[1] = Interface("i") /\ x[2][1].shape = "interface"
        \/ x[1] = Item(Root, "f") /\ x[2][1] = Interface("i") /\ x[2][2] \in {"dGood", "dJunk"}
        \/ x[1] = Interface("i") /\ x[2][1] = Item(Root, "f") /\ x[2][2] \in {"dGood", "dJunk"}}

\* the stub commands whose two identifiers differ in shape
\* (runtime.rs:147-152, the two mixed arms of the match)
ShapeMismatches ==
    {x \in StubCommands : x[1].shape # x[2][1].shape}

PathOf(ident) == <<ident.iface, ident.item>>

(***************************************************************************)
(* The result of a stub: the new binding table, donor store, primary store *)
(* and instance, and the error ("" when the stub succeeded).               *)
(***************************************************************************)
StubOutcome(lk, ds, st, inst, err) ==
    [linker |-> lk, donors |-> ds, store |-> st, instance |-> inst, err |-> err]

\* a donor instance in the donor store: its state is a counter that every
\* call of one of its exports increments; may_enter is the component
\* instance flag that a call clears and only a completed post_return sets
\* again; binds are the handlers its imports were linked to
NewDonor(d) ==
    [count |-> 0, may_enter |-> TRUE,
     binds |-> {DonorLinker.defs[p] : p \in DonorImports(d)}]

\* linker.instantiate(&mut *store_lock, &component): the new instance joins
\* the instances the shared donor store already holds
InstantiateDonor_FreshStore(ds, d) == <<NewDonor(d)>>

InstantiateDonor_Twice(ds, d) == Append(Append(ds, NewDonor(d)), NewDonor(d))

InstantiateDonor(ds, d) == Append(ds, NewDonor(d))

\* the calls the donor instances have taken: those that returned, and the
\* one that left an instance with its may_enter flag clear
RECURSIVE Served(_)
Served(ds) ==
    IF ds = << >> THEN 0
    ELSE Head(ds).count + (IF Head(ds).may_enter THEN 0 ELSE 1) + Served(Tail(ds))

(***************************************************************************)
(* Runtime::stub_function (Item -> Item)                                   *)
(***************************************************************************)
\* runtime.rs:288-313: the handler is installed at the import's path
InstallFunction(lk, imp, h) ==
    IF imp.iface # Root
    THEN FuncNew(LinkerInstance(lk, imp.iface), PathOf(imp), h)
    ELSE FuncNew(lk, PathOf(imp), h)

\* runtime.rs:262-267: `!=` on the parameter lists and on the results is
\* the derived equality: parameter names, and type identifiers as such
CheckItem(i, e) ==
    IF i.params # e.params THEN "TypeMismatch"
    ELSE IF i.results # e.results THEN "TypeMismatch"
    ELSE ""

StubFunction(imp, exp, d) ==
    LET ip == PathOf(imp)
        ep == PathOf(exp)
        fail(e) == StubOutcome(linker, donors, store, instance, e)
    IN  IF ip \notin component \cap FuncPaths THEN fail("UnknownImport")
        ELSE IF ~DonorLoads(d) THEN fail("DonorMetadataFailed")
        ELSE IF ep \notin DonorExportPaths(d) THEN fail("UnknownExport")
        ELSE IF CheckItem(ImportSig(ip), DonorSig(d, ep)) # ""
             THEN fail(CheckItem(ImportSig(ip), DonorSig(d, ep)))
        ELSE IF ~DonorInstantiates(d) THEN fail("DonorInstantiationFailed")
        ELSE LET ds == InstantiateDonor(donors, d)
                 lk == InstallFunction(linker, imp, DonorHandler(Len(ds), ep))
                 r  == Refresh(lk, component, store, instance)
             IN  StubOutcome(lk, ds, r.store, r.instance, r.err)

(***************************************************************************)
(* Runtime::stub_interface (Interface -> Interface)                        *)
(***************************************************************************)
\* the first position of two zipped lists whose types are not reported
\* equal decides: a panic there aborts, anything else is the mismatch `e`
FirstDiffering(outcomes, e) ==
    LET bad == {k \in DOMAIN outcomes : outcomes[k] # "equal"}
    IN  IF bad = {} THEN ""
        ELSE LET k == CHOOSE x \in bad : \A y \in bad : x <= y
             IN  IF outcomes[k] = "panic" THEN "Panic" ELSE e

\* runtime.rs:188-198: parameter types pairwise by position, names ignored
CheckParams(r1, ips, r2, eps) ==
    FirstDiffering([k \in DOMAIN ips |-> TypesEqual(r1, ips[k].ty, r2, eps[k].ty)],
                   "TypeMismatch")

\* the result of looking one import result up by name in the export's results
NamedResult(r1, ir, r2, es) ==
    IF \A j \in DOMAIN es : es[j].name # ir.name THEN "missing"
    ELSE LET j == CHOOSE x \in DOMAIN es : es[x].name = ir.name
         IN  TypesEqual(r1, ir.ty, r2, es[j].ty)

CheckResults_KindsNotCompared(r1, is, r2, es) ==
    IF is.kind = "named" /\ es.kind = "named" THEN
        IF Len(is.list) # Len(es.list) THEN "ArityMismatch"
        ELSE LET outcomes == [k \in DOMAIN is.list |-> NamedResult(r1, is.list[k], r2, es.list)]
                 bad == {k \in DOMAIN outcomes : outcomes[k] # "equal"}
             IN  IF bad = {} THEN ""
                 ELSE LET k == CHOOSE x \in bad : \A y \in bad : x <= y
                      IN  CASE outcomes[k] = "missing" -> "ReturnNameMismatch"
                            [] outcomes[k] = "panic" -> "Panic"
                            [] OTHER -> "ReturnTypeMismatch"
    ELSE IF is.kind = "anon" /\ es.kind = "anon" THEN
        FirstDiffering(<<TypesEqual(r1, is.list[1].ty, r2, es.list[1].ty)>>,
                       "ReturnTypeMismatch")
    ELSE ""

\* runtime.rs:199-221: the results of one function
CheckResults(r1, is, r2, es) ==
    IF is.kind = "named" /\ es.kind = "named" THEN
        IF Len(is.list) # Len(es.list) THEN "ArityMismatch"
        ELSE LET outcomes == [k \in DOMAIN is.list |-> NamedResult(r1, is.list[k], r2, es.list)]
                 bad == {k \in DOMAIN outcomes : outcomes[k] # "equal"}
             IN  IF bad = {} THEN ""
                 ELSE LET k == CHOOSE x \in bad : \A y \in bad : x <= y
                      IN  CASE outcomes[k] = "missing" -> "ReturnNameMismatch"
                            [] outcomes[k] = "panic" -> "Panic"
                            [] OTHER -> "ReturnTypeMismatch"
    ELSE IF is.kind = "anon" /\ es.kind = "anon" THEN
        FirstDiffering(<<TypesEqual(r1, is.list[1].ty, r2, es.list[1].ty)>>,
                       "ReturnTypeMismatch")
    ELSE "ReturnKindMismatch"

\* runtime.rs:185-221: the checks on one imported function `i` of universe
\* r1 against the exported function `e` of universe r2
CheckSignature(r1, i, r2, e) ==
    IF Len(i.params) # Len(e.params) THEN "ArityMismatch"
    ELSE LET ps == CheckParams(r1, i.params, r2, e.params)
         IN  IF ps # "" THEN ps
             ELSE CheckResults(r1, i.results, r2, e.results)

\* runtime.rs:181-221: one imported function against the donor's export
CheckFunction(d, ip, ep) ==
    IF ep \notin DonorExportPaths(d) THEN "MissingExportFunction"
    ELSE CheckSignature(PrimaryResolver, ImportSig(ip), DonorResolver, DonorSig(d, ep))

\* runtime.rs:180-241: the loop over the functions of the imported interface;
\* each function is checked and then installed before the next is looked at
RECURSIVE StubInterfaceLoop(_, _, _, _, _, _)
StubInterfaceLoop(fs, lk, imp, exp, d, n) ==
    IF fs = << >> THEN [linker |-> lk, err |-> ""]
    ELSE LET ip == <<imp.iface, Head(fs)>>
             ep == <<exp.iface, Head(fs)>>
             e  == CheckFunction(d, ip, ep)
         IN  IF e # "" THEN [linker |-> lk, err |-> e]
             ELSE StubInterfaceLoop(Tail(fs), FuncNew(lk, ip, DonorHandler(n, ep)),
                                    imp, exp, d, n)

StubInterface(imp, exp, d) ==
    IF ~DonorLoads(d)
    THEN StubOutcome(linker, donors, store, instance, "DonorLoadFailed")
    ELSE LET lk0 == LinkerInstance(linker, imp.iface)
             fail(e) == StubOutcome(lk0, donors, store, instance, e)
         IN  IF ~ImportsInterface(component, imp.iface) THEN fail("UnknownImport")
             ELSE IF ~ExportsInterface(d, exp.iface) THEN fail("UnknownExport")
             ELSE IF ~DonorInstantiates(d) THEN fail("DonorInstantiationFailed")
             ELSE LET ds == InstantiateDonor(donors, d)
                      l  == StubInterfaceLoop(ImportedFunctions(component, imp.iface),
                                              lk0, imp, exp, d, Len(ds))
                  IN  IF l.err # ""
                      THEN StubOutcome(l.linker, ds, store, instance, l.err)
                      ELSE LET r == Refresh(l.linker, component, store, instance)
                           IN  StubOutcome(l.linker, ds, r.store, r.instance, r.err)

(***************************************************************************)
(* Runtime::stub                                                           *)
(***************************************************************************)
\* Observation kept beside the donor store: per donor instance, the calls
\* that returned, and the import paths at which a later successful stub
\* bound another donor in its place.
Observe(h, lk, r) ==
    LET h1 == IF Len(r.donors) > Len(h)
              THEN Append(h, [returned |-> 0, superseded |-> {}]) ELSE h
        gone(k) == {p \in FuncPaths :
                      /\ lk.defs[p].kind = "donor" /\ lk.defs[p].inst = k
                      /\ r.linker.defs[p].kind = "donor" /\ r.linker.defs[p].inst # k}
    IN  IF r.err # "" THEN h1
        ELSE [k \in 1..Len(h1) |->
                 IF k <= Len(h)
                 THEN [h1[k] EXCEPT !.superseded = @ \cup gone(k)]
                 ELSE h1[k]]

StubResult_NoShapeCheck(imp, exp, d) ==
    IF imp.shape = "item" THEN StubFunction(imp, exp, d) ELSE StubInterface(imp, exp, d)

StubResult(imp, exp, d) ==
    IF imp.shape = "item" /\ exp.shape = "item" THEN StubFunction(imp, exp, d)
    ELSE IF imp.shape = "interface" /\ exp.shape = "interface" THEN StubInterface(imp, exp, d)
    ELSE StubOutcome(linker, donors, store, instance, "ShapeMismatch")

\* stub_interface and stub_function lock the donor store in a block of
\* their own (runtime.rs:177-242, 272-285), which ends before refresh
Stub(imp, exp, d) ==
    /\ pc = "idle"
    /\ guard = "free"
    /\ Len(donors) < MaxDonors
    /\ LET r == StubResult(imp, exp, d) IN
        /\ linker' = r.linker
        /\ donors' = r.donors
        /\ store' = r.store
        /\ instance' = r.instance
        /\ last' = Op("stub", r.err)
        /\ hist' = Observe(hist, linker, r)
    /\ UNCHANGED <<component, guard, pc, cur>>
    /\ UNCHANGED tvars

(***************************************************************************)
(* Runtime::get_func and Runtime::call_func.  The exported function that   *)
(* is called invokes import `p` of the primary; the handler the instance   *)
(* was created with runs.  A cross-component handler (runtime.rs:235-240,  *)
(* 296-301, 306-311) locks the donor store, calls the donor's export, runs *)
(* post_return, and drops the lock when its scope ends.                    *)
(***************************************************************************)
\* get_func uses self.instance with self.store: an instance of another store
\* panics, and the process ends
GetFuncPanic ==
    /\ pc = "idle"
    /\ instance.store # store
    /\ pc' = "panicked"
    /\ last' = Op("call", "Panic")
    /\ UNCHANGED <<component, linker, store, instance, donors, guard, cur, hist>>
    /\ UNCHANGED tvars

\* func.call on an instance whose may_enter flag is clear: the call is
\* refused before any code of the component runs
CallFuncRefused(p) ==
    /\ pc = "idle"
    /\ instance.store = store
    /\ p \in instance.comp \cap FuncPaths
    /\ ~instance.may_enter
    /\ last' = Op("call", "CannotEnterComponent")
    /\ UNCHANGED <<component, linker, store, instance, donors, guard, pc, cur, hist>>
    /\ UNCHANGED tvars

CallFuncBegin(p) ==
    /\ pc = "idle"
    /\ instance.store = store
    /\ p \in instance.comp \cap FuncPaths
    /\ instance.may_enter
    /\ instance.bind[p].kind = "donor" => Served(donors) < MaxCalls
    /\ pc' = "in_call"
    /\ cur' = [path |-> p, handler |-> instance.bind[p], err |-> "",
               inner |-> NoHandler, cb |-> << >>]
    /\ last' = Op("call", "Pending")
    /\ UNCHANGED <<component, linker, store, instance, donors, guard, hist>>
    /\ UNCHANGED tvars

\* What the primary gets back from a stub handler.  The closure calls
\* stub_import and returns Ok(()) without writing to `_rets`
\* (runtime.rs:52-55, 64-67), so the results are the placeholders the linker
\* passed in: for a function without results there is nothing to convert;
\* for one with results the conversion of the placeholders to the declared
\* result types either goes through or fails the call.
StubReturns(p) ==
    IF ImportSig(p).results.list = << >> THEN {""}
    ELSE {"", "ResultTypeMismatch"}

\* a stub handler or a host-capability handler: no donor store involved
HostHandler ==
    /\ pc = "in_call"
    /\ cur.handler.kind \in {"stub", "wasi"}
    /\ pc' = "handler_done"
    /\ IF cur.handler.kind = "stub"
       THEN \E e \in StubReturns(cur.path) :
               cur' = [cur EXCEPT !.cb = Append(@, cur.handler.name), !.err = e]
       ELSE cur' = cur
    /\ UNCHANGED <<component, linker, store, instance, donors, guard, hist, last>>
    /\ UNCHANGED tvars

\* store.lock().unwrap()
HandlerLock ==
    /\ pc = "in_call"
    /\ cur.handler.kind = "donor"
    /\ guard = "free"
    /\ guard' = "held"
    /\ pc' = "donor_call"
    /\ UNCHANGED <<component, linker, store, instance, donors, cur, hist, last>>
    /\ UNCHANGED tvars

\* export_func.call(&mut *store, args, results)?
DonorCallOk_SharedState ==
    /\ pc = "donor_call"
    /\ donors[cur.handler.inst].may_enter
    /\ donors' = [k \in 1..Len(donors) |-> [donors[k] EXCEPT !.count = @ + 1]]
    /\ hist' = [hist EXCEPT ![cur.handler.inst].returned = @ + 1]
    /\ pc' = "post_return"
    /\ UNCHANGED <<component, linker, store, instance, guard, cur, last>>
    /\ UNCHANGED tvars

DonorCallOk ==
    /\ pc = "donor_call"
    /\ donors[cur.handler.inst].may_enter
    /\ donors' = [donors EXCEPT ![cur.handler.inst].count = @ + 1]
    /\ hist' = [hist EXCEPT ![cur.handler.inst].returned = @ + 1]
    /\ pc' = "post_return"
    /\ UNCHANGED <<component, linker, store, instance, guard, cur, last>>
    /\ UNCHANGED tvars

\* the export traps: the donor instance keeps its may_enter flag clear
DonorCallTrap ==
    /\ pc = "donor_call"
    /\ donors[cur.handler.inst].may_enter
    /\ donors' = [donors EXCEPT ![cur.handler.inst].may_enter = FALSE]
    /\ cur' = [cur EXCEPT !.err = "Trap"]
    /\ pc' = "handler_exit"
    /\ UNCHANGED <<component, linker, store, instance, guard, hist, last>>
    /\ UNCHANGED tvars

\* the donor instance was left with may_enter clear by an earlier call
DonorCallRefused ==
    /\ pc = "donor_call"
    /\ ~donors[cur.handler.inst].may_enter
    /\ cur' = [cur EXCEPT !.err = "CannotEnterComponent"]
    /\ pc' = "handler_exit"
    /\ UNCHANGED <<component, linker, store, instance, donors, guard, hist, last>>
    /\ UNCHANGED tvars

\* while it runs, the donor's export calls an import of the donor; the
\* handler is the one the donor was instantiated with
DonorImportCall ==
    /\ pc = "donor_call"
    /\ donors[cur.handler.inst].may_enter
    /\ \E h \in donors[cur.handler.inst].binds :
          cur' = [cur EXCEPT !.inner = h]
    /\ pc' = "donor_import"
    /\ UNCHANGED <<component, linker, store, instance, donors, guard, hist, last>>
    /\ UNCHANGED tvars

\* a host-capability handler (or a stub) returns to the donor.  A
\* cross-component handler would start with store.lock() on the guard its
\* own call chain holds, and never return.
DonorImportReturn ==
    /\ pc = "donor_import"
    /\ cur.inner.kind \in {"wasi", "stub"}
    /\ cur' = [cur EXCEPT !.inner = NoHandler]
    /\ pc' = "donor_call"
    /\ UNCHANGED <<component, linker, store, instance, donors, guard, hist, last>>
    /\ UNCHANGED tvars

\* export_func.post_return(&mut *store)?
PostReturn(err) ==
    /\ pc = "post_return"
    /\ donors' = [donors EXCEPT ![cur.handler.inst].may_enter = (err = "")]
    /\ cur' = [cur EXCEPT !.err = err]
    /\ pc' = "handler_exit"
    /\ UNCHANGED <<component, linker, store, instance, guard, hist, last>>
    /\ UNCHANGED tvars

\* the MutexGuard goes out of scope, on the Ok path and on both `?` paths
HandlerExit_LeakOnError ==
    /\ pc = "handler_exit"
    /\ guard' = IF cur.err = "" THEN "free" ELSE guard
    /\ pc' = "handler_done"
    /\ UNCHANGED <<component, linker, store, instance, donors, cur, hist, last>>
    /\ UNCHANGED tvars

HandlerExit ==
    /\ pc = "handler_exit"
    /\ guard' = "free"
    /\ pc' = "handler_done"
    /\ UNCHANGED <<component, linker, store, instance, donors, cur, hist, last>>
    /\ UNCHANGED tvars

\* func.call returns to call_func, which returns to the shell
\* an error of the handler is a trap of the primary: func.call returns it
\* through `?` (runtime.rs:124), post_return is not reached, and the
\* instance keeps its may_enter flag clear
CallFuncEnd ==
    /\ pc = "handler_done"
    /\ pc' = "idle"
    /\ cur' = NoCall
    /\ last' = Op("call", cur.err)
    /\ instance' = [instance EXCEPT !.may_enter = (cur.err = "")]
    /\ UNCHANGED <<component, linker, store, donors, guard, hist>>
    /\ UNCHANGED tvars

Next ==
    \/ \E c \in PrimaryComponents : SetComponent(Bytes(c))
    \/ \E a \in Adapters : Compose(a)
    \/ \E x \in StubCommands : Stub(x[1], x[2][1], x[2][2])
    \/ GetFuncPanic
    \/ \E p \in FuncPaths : CallFuncRefused(p)
    \/ \E p \in FuncPaths : CallFuncBegin(p)
    \/ HostHandler
    \/ HandlerLock
    \/ DonorCallOk
    \/ DonorCallTrap
    \/ DonorCallRefused
    \/ DonorImportCall
    \/ DonorImportReturn
    \/ \E err \in {"", "PostReturnFailed"} : PostReturn(err)
    \/ HandlerExit
    \/ CallFuncEnd

Spec == Init /\ [][Next]_vars

(***************************************************************************)
(* The type checks as functions of their arguments: types_equal on two     *)
(* types of two universes, and the signature checks of stub_function and   *)
(* stub_interface on one imported and one exported function.  The state    *)
(* is a query and, once the function has been applied, its answer; the     *)
(* runtime stays as init returned it.                                      *)
(***************************************************************************)
TypesEqualQueries ==
    UNION {UNION {{[op |-> "types_equal", r1 |-> a, t1 |-> x, r2 |-> b, t2 |-> y] :
                      x \in TypesOf(a), y \in TypesOf(b)} :
                  b \in Resolvers} :
           a \in Resolvers}

\* functions the primary imports, typed in the primary's universe
ImportSignatures ==
    {SigF,
     SigUnit,
     Sig(<<Param("a", TypeId("p", 2))>>, Anon(TypeId("p", 3))),
     Sig(<<Param("a", Prim("u32")), Param("b", Prim("string"))>>,
         Named(<<Param("v", Prim("u32")), Param("w", Prim("string"))>>)),
     Sig(<<Param("a", TypeId("p", 1))>>, Anon(Prim("u32"))),
     Sig(<<Param("a", Prim("u32"))>>, Anon(TypeId("p", 4)))}

\* functions a donor exports, typed in the donor's universe
ExportSignatures ==
    {SigF,
     SigUnit,
     Sig(<<Param("b", Prim("u32"))>>, Anon(Prim("u32"))),
     Sig(<<Param("a", Prim("string"))>>, Anon(Prim("u32"))),
     Sig(<<Param("a", Prim("u32"))>>, Named(<<Param("v", Prim("u32"))>>)),
     Sig(<<Param("a", TypeId("d", 1))>>, Anon(TypeId("d", 6))),
     Sig(<<Param("a", TypeId("d", 1))>>, Anon(TypeId("d", 5))),
     Sig(<<Param("a", Prim("u32")), Param("b", Prim("string"))>>,
         Named(<<Param("w", Prim("string")), Param("v", Prim("u32"))>>)),
     Sig(<<Param("a", Prim("u32")), Param("b", Prim("string"))>>,
         Named(<<Param("v", Prim("u32")), Param("x", Prim("string"))>>)),
     Sig(<<Param("a", TypeId("d", 2))>>, Anon(Prim("u32"))),
     Sig(<<Param("a", Prim("u32"))>>, Anon(TypeId("d", 4))),
     Sig(<<Param("a", Prim("u32"))>>, Anon(TypeId("d", 3)))}

SignatureQueries(op) ==
    {[op |-> op, i |-> i, e |-> e] : i \in ImportSignatures, e \in ExportSignatures}

Queries ==
    TypesEqualQueries \cup SignatureQueries("stub_function")
                      \cup SignatureQueries("stub_interface")

TypeInit ==
    /\ RuntimeNew({<<"i", "f">>, <<"i", "r">>})
    /\ query \in Queries
    /\ answer = NoAnswer

\* types_equal(resolver1, t1, resolver2, t2)
TypesEqualCall ==
    /\ query.op = "types_equal" /\ answer = NoAnswer
    /\ answer' = TypesEqual(query.r1, query.t1, query.r2, query.t2)
    /\ UNCHANGED <<component, linker, store, instance, donors, guard, pc, cur, hist,
                   last, query>>

\* the type checking of stub_function, import and export both found
CheckItemCall ==
    /\ query.op = "stub_function" /\ answer = NoAnswer
    /\ answer' = CheckItem(query.i, query.e)
    /\ UNCHANGED <<component, linker, store, instance, donors, guard, pc, cur, hist,
                   last, query>>

\* the checks of stub_interface on one function, its export found
CheckSignatureCall ==
    /\ query.op = "stub_interface" /\ answer = NoAnswer
    /\ answer' = CheckSignature(PrimaryResolver, query.i, DonorResolver, query.e)
    /\ UNCHANGED <<component, linker, store, instance, donors, guard, pc, cur, hist,
                   last, query>>

TypeNext ==
    \/ TypesEqualCall
    \/ CheckItemCall
    \/ CheckSignatureCall

TypeSpec == TypeInit /\ [][TypeNext]_vars

(***************************************************************************)
(* Properties.                                                             *)
(***************************************************************************)
Bound(def) == def.kind \in {"stub", "donor", "wasi"}

RuntimeState == <<component, linker, store, instance, donors, guard>>

\* C1: in every reachable state the binding table holds a handler for every
\* function import of the current primary component.  (Stated as the specification
\* has it; a set_component whose refresh fails leaves a primary with
\* imports the table does not bind.)
C1_TableCoversImports ==
    \A p \in component \cap FuncPaths : Bound(linker.defs[p])

\* C2: right after init every import of the primary has its handler: with
\* the host-capability namespace imported, those imports are bound to
\* host-capability handlers and the others to stubs; otherwise every import
\* is bound to a stub; and the instance is the instantiation of the primary
\* against that table.
C2_InitTotalCoverage ==
    last.op = "init" =>
        /\ \A p \in component :
              IF p \in ResourcePaths THEN linker.defs[p] = ResourceDef
              ELSE IF ImportsWasiCli(component) /\ IsWasi(p)
                   THEN linker.defs[p] = WasiHandler
                   ELSE linker.defs[p].kind = "stub"
        /\ \A p \in Paths \ component : ~Bound(linker.defs[p]) \/ IsWasi(p)
        /\ instance.store = store
        /\ instance.comp = component
        /\ \A p \in component : instance.bind[p] = linker.defs[p]

C2_Witness ==
    /\ last.op = "init"
    /\ ImportsWasiCli(component)
    /\ \E p \in component : linker.defs[p].kind = "stub"
    /\ \E p \in component : linker.defs[p].kind = "wasi"

\* C3: whenever a command has returned, the current instance is the
\* instantiation of the current primary against the binding table as it
\* stands.  (Stated as the specification has it.)
C3_InstanceIsCurrent ==
    pc = "idle" =>
        /\ instance.store = store
        /\ instance.comp = component
        /\ \A p \in component : instance.bind[p] = linker.defs[p]

\* C4: a stub that returns a validation error has replaced no handler: no
\* import path is bound to a cross-component handler it was not bound to
\* before the call.  (The specification's own instance of "the binding table is
\* identical": an interface stub that fails at a later function.)
C4_ValidationErrorKeepsTable ==
    [][(last'.op = "stub" /\ last'.res = "validation") =>
          \A q \in Paths :
              linker'.defs[q].kind = "donor" => linker'.defs[q] = linker.defs[q]]_vars

\* C5: a stub that reaches the installation of its handler succeeds, and
\* every entry of the binding table is either the one it was or the new
\* cross-component handler.  (Stated as the specification has it.)
C5_ShadowingKeepsOtherPaths ==
    [][(last'.op = "stub" /\ last'.res \in {"ok", "refresh"}) =>
          /\ last'.res = "ok"
          /\ \A q \in Paths :
                \/ linker'.defs[q] = linker.defs[q]
                \/ /\ linker'.defs[q].kind = "donor"
                   /\ linker'.defs[q].inst = Len(donors')]_vars

\* C6: the donor store is never replaced or reset: every donor instance
\* ever created is still in it, and its counter is the number of calls it
\* has served.
C6_DonorStatePersists ==
    /\ Len(donors) = Len(hist)
    /\ \A k \in 1..Len(hist) : donors[k].count = hist[k].returned

C6_Witness ==
    /\ pc = "idle"
    /\ last.op \in {"stub", "set_component", "compose"}
    /\ \E k \in 1..Len(donors) : donors[k].count = MaxCalls

\* C7: the state of a donor instance changes only by one call dispatched to
\* it, through an import path at which no later successful stub has bound
\* another donor in its place.
C7_ShadowedDonorUntouched ==
    [][\A k \in 1..Len(donors) :
          donors'[k].count # donors[k].count =>
              /\ cur.handler.kind = "donor"
              /\ cur.handler.inst = k
              /\ cur.path \notin hist[k].superseded
              /\ donors'[k].count = donors[k].count + 1]_vars

C7_Witness ==
    /\ Len(donors) = 2
    /\ hist[1].superseded # {}
    /\ donors[1].count >= 1
    /\ donors[2].count >= 1

\* C8: a stub whose identifiers differ in shape fails with ShapeMismatch and
\* changes nothing.  In every reachable state the outcome of such a stub is
\* the state it started from (binding table, donor store, store, instance)
\* with the ShapeMismatch error, and a step that ends in that error leaves
\* every variable but the reported result as it was: no donor was loaded
\* or instantiated, no refresh ran, the guard was not taken.
C8_ShapeMismatchNoEffect ==
    /\ [](\A x \in ShapeMismatches :
            StubResult(x[1], x[2][1], x[2][2]) =
                StubOutcome(linker, donors, store, instance, "ShapeMismatch"))
    /\ [][(last'.op = "stub" /\ last'.res = "shape") =>
              UNCHANGED <<RuntimeState, hist, component, pc, cur>>]_vars

C8_Witness == last.op = "stub" /\ last.res = "shape"

C10_GuardDiscipline ==
    /\ guard = "held" <=>
          pc \in {"donor_call", "donor_import", "post_return", "handler_exit"}
    /\ guard = "held" => cur.handler.kind = "donor"

C10_Witness ==
    /\ pc = "handler_done"
    /\ cur.handler.kind = "donor"
    /\ cur.err # ""
    /\ guard = "free"

(***************************************************************************)
(* Structural type equivalence (specification 4.3), under TypeSpec.        *)
(***************************************************************************)
\* two types of two universes have the same structure
StructurallyEqual(r1, t1, r2, t2) == Structure(r1, t1) = Structure(r2, t2)

\* the identifiers of universe r that are transparent aliases of t
AliasesOf(r, t) ==
    {TypeId(r.arena, i) : i \in {j \in DOMAIN r.types : r.types[j] = AliasOf(t)}}

\* types_equal has been applied to the query
TypesEqualAnswered == query.op = "types_equal" /\ answer # NoAnswer

\* C12: types_equal is reflexive: a well-formed type compared with itself,
\* in its own universe on both sides, is reported equal.
C12_Reflexive ==
    (TypesEqualAnswered /\ query.r1 = query.r2 /\ query.t1 = query.t2)
        => answer = "equal"

\* C13: types_equal is symmetric across universes: swapping the two
\* (universe, type) pairs gives the same answer.
C13_Symmetric ==
    TypesEqualAnswered
        => answer = TypesEqual(query.r2, query.t2, query.r1, query.t1)

\* C14: transparent aliases do not change the answer: when two types are
\* reported equal, so are an alias of the left one, an alias of the right
\* one, and an alias on both sides, in place of the types themselves.
C14_AliasTransparent ==
    (TypesEqualAnswered /\ answer = "equal")
        => \A a \in AliasesOf(query.r1, query.t1) \cup {query.t1},
              b \in AliasesOf(query.r2, query.t2) \cup {query.t2} :
                TypesEqual(query.r1, a, query.r2, b) = "equal"

\* C15: types_equal never reports equal for two types that differ in
\* structure, and two identifiers whose definitions are of different kinds,
\* or of a kind other than result, list and variant, are reported unequal.
C15_NeverEqualWhenDifferent ==
    TypesEqualAnswered =>
        /\ answer = "equal"
             => StructurallyEqual(query.r1, query.t1, query.r2, query.t2)
        /\ (query.t1.k = "id" /\ query.t2.k = "id" /\ answer # "panic")
             => LET d1 == TypeById(query.r1, query.t1)
                    d2 == TypeById(query.r2, query.t2)
                IN  (d1.kind # d2.kind \/ d1.kind \notin {"result", "list", "variant"})
                        => answer = "unequal"

\* two variants that differ in one case name have been compared and
\* reported unequal
C15_Witness ==
    /\ TypesEqualAnswered
    /\ query.r1 = PrimaryResolver /\ query.t1 = TypeId("p", 4)
    /\ query.r2 = DonorResolver /\ query.t2 = TypeId("d", 3)
    /\ answer = "unequal"

(***************************************************************************)
(* The signature checks of stub (specification 4.2), under TypeSpec.       *)
(***************************************************************************)
\* parameters and results correspond by position and have the same structure
SignaturesStructurallyEqual(i, e) ==
    /\ Len(i.params) = Len(e.params)
    /\ \A k \in DOMAIN i.params :
          StructurallyEqual(PrimaryResolver, i.params[k].ty, DonorResolver, e.params[k].ty)
    /\ i.results.kind = e.results.kind
    /\ Len(i.results.list) = Len(e.results.list)
    /\ \A k \in DOMAIN i.results.list :
          StructurallyEqual(PrimaryResolver, i.results.list[k].ty,
                            DonorResolver, e.results.list[k].ty)

\* C16: an Item -> Item stub is accepted exactly when the parameter and
\* result types of import and export are structurally equal element by
\* element, whatever their type identifiers.
C16_ItemStubStructural ==
    (query.op = "stub_function" /\ answer # NoAnswer)
        => (answer = "" <=> SignaturesStructurallyEqual(query.i, query.e))

\* the conditions of an Interface -> Interface stub on one function
InterfaceConditions(i, e) ==
    /\ Len(i.params) = Len(e.params)
    /\ \A k \in DOMAIN i.params :
          StructurallyEqual(PrimaryResolver, i.params[k].ty, DonorResolver, e.params[k].ty)
    /\ i.results.kind = e.results.kind
    /\ i.results.kind = "anon"
          => StructurallyEqual(PrimaryResolver, i.results.list[1].ty,
                               DonorResolver, e.results.list[1].ty)
    /\ i.results.kind = "named"
          => /\ Len(i.results.list) = Len(e.results.list)
             /\ \A k \in DOMAIN i.results.list :
                   \E j \in DOMAIN e.results.list :
                      /\ e.results.list[j].name = i.results.list[k].name
                      /\ StructurallyEqual(PrimaryResolver, i.results.list[k].ty,
                                           DonorResolver, e.results.list[j].ty)

C19_InfrastructureErrorKeepsState ==
    [][(last'.op \in {"stub", "compose"} /\ last'.res = "infrastructure") =>
          UNCHANGED <<component, linker, store, instance, donors>>]_vars

\* C20: after call_func has returned an error the donor store guard is
\* free and the current instance can be entered again, so that a later
\* call_func on it can succeed without a refresh.
C20_UsableAfterCallError ==
    (pc = "idle" /\ last.op = "call" /\ last.res = "invocation")
        => (guard = "free" /\ instance.may_enter)

(***************************************************************************)
(* Refresh as the publication point (specification 5), under Spec.         *)
(***************************************************************************)
\* the table holds a donor handler at p, the last refresh published it to
\* the instance, and the primary is the one that instance was made from
Published(p) ==
    /\ p \in component \cap FuncPaths
    /\ instance.comp = component
    /\ linker.defs[p].kind = "donor"
    /\ instance.bind[p] = linker.defs[p]

\* a step of the shell that invokes a function of the primary
Invocation == pc = "idle" /\ last'.op = "call"

InterfaceStubs ==
    {x \in StubCommands : x[1].shape = "interface" /\ x[2][1].shape = "interface"}

\* C22: an Interface -> Interface stub that succeeds has added exactly one
\* donor instance to the donor store, has bound every function of the
\* imported interface to the export of the same name of that one instance,
\* and has refreshed once, against the table with all these handlers in it.
C22_InterfaceStubOneDonorOneRefresh ==
    /\ [](\A x \in InterfaceStubs :
            LET r == StubResult(x[1], x[2][1], x[2][2])
                n == Len(donors) + 1
            IN  r.err = "" =>
                  /\ r.donors = Append(donors, NewDonor(x[2][2]))
                  /\ \A f \in {"f", "g", "w"} :
                        <<x[1].iface, f>> \in component =>
                            r.linker.defs[<<x[1].iface, f>>]
                                = DonorHandler(n, <<x[2][1].iface, f>>)
                  /\ r.instance = Refresh(r.linker, component, store, instance).instance
                  /\ r.store = Refresh(r.linker, component, store, instance).store
                  /\ r.instance.bind = Snapshot(r.linker, component))
    /\ [][(pc = "idle" /\ last'.op = "stub" /\ last'.res = "ok")
            => /\ Len(donors') = Len(donors) + 1
               /\ instance'.bind = Snapshot(linker', component')
               /\ instance'.store = store']_vars

\* an interface stub has succeeded: both functions of i are bound to the
\* same donor instance, and the primary instance is bound to them
C22_Witness ==
    /\ pc = "idle" /\ last.op = "stub" /\ last.res = "ok"
    /\ linker.defs[<<"i", "f">>].kind = "donor"
    /\ linker.defs[<<"i", "g">>].kind = "donor"
    /\ linker.defs[<<"i", "f">>].inst = linker.defs[<<"i", "g">>].inst
    /\ instance.bind[<<"i", "g">>] = linker.defs[<<"i", "g">>]

\* C23: a stub that ends in a validation error has not instantiated its
\* donor: the donor store holds the instances it held before the call.
C23_ValidationPrecedesInstantiation ==
    [][(pc = "idle" /\ last'.op = "stub" /\ last'.res = "validation")
          => donors' = donors]_vars

\* C25: a stub, set_component or compose whose refresh fails leaves the
\* primary, the primary store and the current instance as they were, and in
\* every state the current instance lives in the current store and is an
\* instance of the current primary.
C25_FailedRefreshIsAtomic ==
    /\ [](instance.store = store /\ instance.comp = component)
    /\ [][(pc = "idle" /\ last'.res = "refresh")
            => UNCHANGED <<component, store, instance>>]_vars

(***************************************************************************)
(* Stub handlers (specification 3), under Spec.                            *)
(***************************************************************************)
\* C24: when the handler of an invocation has returned: a stub handler has
\* called the callback once, with the name of its import, has succeeded,
\* and has left the donor store guard alone; a cross-component handler has
\* not called the callback.
C24_StubHandlerCallsBackAndSucceeds ==
    pc = "handler_done" =>
        /\ cur.handler.kind = "stub"
             => /\ cur.cb = <<WorldItemName(cur.path)>>
                /\ cur.err = ""
                /\ guard = "free"
        /\ cur.handler.kind = "donor" => cur.cb = << >>

(***************************************************************************)
(* The command parser (src/src/command/parser.rs), a nom parser over the   *)
(* characters of one input line.  A line is a sequence of characters; a    *)
(* parser returns Ok with the rest of the input and a value, a recoverable *)
(* Error, or a Failure.                                                    *)
(***************************************************************************)
\* longest input line
MaxLen == 6

\* the characters input lines are made of
Alphabet == {"a", "(", ")", "=", ",", "%", " ", "\""}

Alpha == {"a", "b"}

Digit == {"0", "1"}

Space == {" "}

Quote == "\""

\* every character
Chars ==
    Alphabet \cup Alpha \cup Digit \cup Space
             \cup {Quote, "-", "/", ".", "?", "{", "}", ":", "^", "&", "*"}

POk(rest, val) == [kind |-> "Ok", rest |-> rest, val |-> val]

PError == [kind |-> "Error", rest |-> << >>, val |-> << >>]

PFailure == [kind |-> "Failure", rest |-> << >>, val |-> << >>]

Drop(s, n) == SubSeq(s, n + 1, Len(s))

Take(s, n) == SubSeq(s, 1, n)

\* length of the longest prefix of s made of characters of class
RECURSIVE PrefixLen(_, _)
PrefixLen(s, class) ==
    IF s # << >> /\ Head(s) \in class THEN 1 + PrefixLen(Tail(s), class) ELSE 0

\* length of the longest suffix of s made of characters of class
RECURSIVE SuffixLen(_, _)
SuffixLen(s, class) ==
    IF s # << >> /\ s[Len(s)] \in class
    THEN 1 + SuffixLen(Take(s, Len(s) - 1), class) ELSE 0

\* multispace0
SkipSpace(s) == Drop(s, PrefixLen(s, Space))

\* str::trim
Trim(s) ==
    LET t == SkipSpace(s) IN Take(t, Len(t) - SuffixLen(t, Space))

\* tag(c)
Tag(c, s) == IF s # << >> /\ Head(s) = c THEN POk(Tail(s), c) ELSE PError

Cut_Transparent(r) == r

\* cut(parser): an Error of the parser becomes a Failure
Cut(r) == IF r.kind = "Error" THEN PFailure ELSE r

\* the `?` operator (parser.rs:114-117): an Error or a Failure of r is
\* returned at once, an Ok is handed on
AndThen(r, Rest(_)) == IF r.kind # "Ok" THEN r ELSE Rest(r)

\* alt((r, other)) (parser.rs:18-22): the next alternative is tried on an
\* Error only
OrElse(r, other) == IF r.kind # "Error" THEN r ELSE other

\* map(parser, F) (parser.rs:19-21)
Map(r, F(_)) == IF r.kind = "Ok" THEN POk(r.rest, F(r.val)) ELSE r

\* separated_list0 (parser.rs:116), the element e having been tried on the
\* input s: an Error ends the list in front of s, a Failure is returned
ListElem(s, acc, e, More(_, _)) ==
    IF e.kind = "Error" THEN POk(s, acc)
    ELSE IF e.kind = "Failure" THEN e
    ELSE More(e.rest, Append(acc, e.val))

\* separated_list0, the separator sep having been tried on the input s
ListSep(s, acc, sep, Elem(_)) ==
    IF sep.kind = "Error" THEN POk(s, acc)
    ELSE IF sep.kind = "Failure" THEN sep
    ELSE Elem(sep.rest)

\* ident (parser.rs:142-145)
ParseIdent(input) ==
    LET s == SkipSpace(input) IN
    IF s = << >> \/ Head(s) \notin Alpha THEN PError
    ELSE LET n == PrefixLen(s, Alpha \cup {"-", "/"})
         IN  POk(SkipSpace(Drop(s, n)), Take(s, n))

\* anything_but_quote (parser.rs:133-135)
AnythingButQuote(s) ==
    LET n == PrefixLen(s, Chars \ {Quote}) IN POk(Drop(s, n), Take(s, n))

\* anything_but_space (parser.rs:137-140)
AnythingButSpace(s) ==
    LET n == PrefixLen(s, Chars \ Space) IN POk(Drop(s, n), Take(s, n))

\* delimited(tag("\""), anything_but_quote, tag("\"")) (parser.rs:122-124)
StringLiteral(s) ==
    AndThen(Tag(Quote, s), LAMBDA q :
    AndThen(AnythingButQuote(q.rest), LAMBDA b :
    AndThen(Tag(Quote, b.rest), LAMBDA e :
    POk(e.rest, b.val))))

\* builtin_argument (parser.rs:126-131)
BuiltinArgument(s) == OrElse(StringLiteral(s), AnythingButSpace(s))

\* multispace1
Multispace1(s) ==
    IF PrefixLen(s, Space) = 0 THEN PError ELSE POk(SkipSpace(s), " ")

\* separated_list0(multispace1, builtin_argument), after its first element
RECURSIVE BuiltinArgsMore(_, _)
BuiltinArgsMore(s, acc) ==
    ListSep(s, acc, Multispace1(s), LAMBDA r :
    ListElem(s, acc, BuiltinArgument(r), BuiltinArgsMore))

BuiltinArgs(s) == ListElem(s, << >>, BuiltinArgument(s), BuiltinArgsMore)

\* builtin_call (parser.rs:30-39)
BuiltinCall(input) ==
    AndThen(Tag(".", input), LAMBDA d :
    AndThen(ParseIdent(d.rest), LAMBDA i :
    IF i.rest = << >> THEN POk(<< >>, [name |-> i.val, args |-> << >>])
    ELSE AndThen(BuiltinArgs(i.rest), LAMBDA a :
         POk(a.rest, [name |-> i.val, args |-> a.val]))))

\* special_char (parser.rs:40-47)
SpecialChar(input) ==
    AndThen(Tag("?", input), LAMBDA d :
    AndThen(BuiltinArgs(d.rest), LAMBDA a :
    IF a.rest = << >> THEN POk(<< >>, [name |-> <<"help">>, args |-> << >>])
    ELSE POk(a.rest, [name |-> <<"help">>, args |-> a.val])))

\* builtin (parser.rs:26-28)
Builtin(input) == OrElse(BuiltinCall(input), SpecialChar(input))

\* the trees of Expr and Literal
FunctionCallExpr(name, args) == [t |-> "FunctionCall", name |-> name, args |-> args]

LiteralExpr(lit) == [t |-> "Literal", lit |-> lit]

IdentExpr(name) == [t |-> "Ident", name |-> name]

NumLit(digits) == [t |-> "Num", v |-> digits]

StringLit(chars) == [t |-> "String", v |-> chars]

IdentLit(name) == [t |-> "Ident", v |-> name]

RecordLit(fields) == [t |-> "Record", v |-> fields]

\* the trees of Line
BuiltinLine(b) == [t |-> "Builtin", name |-> b.name, args |-> b.args]

AssignmentLine(name, expr) == [t |-> "Assignment", name |-> name, expr |-> expr]

ExprLine(expr) == [t |-> "Expr", expr |-> expr]

RECURSIVE ExprParse(_)
RECURSIVE ExprListMore(_, _)
RECURSIVE FieldListMore(_, _)

\* separated_list0(tag(","), Expr::parse)
ExprList(s) == ListElem(s, << >>, ExprParse(s), ExprListMore)

ExprListMore(s, acc) ==
    ListSep(s, acc, Tag(",", s), LAMBDA r :
    ListElem(s, acc, ExprParse(r), ExprListMore))

\* function_call (parser.rs:113-120), mapped to Expr::FunctionCall
FunctionCall(input) ==
    AndThen(ParseIdent(input), LAMBDA i :
    AndThen(Tag("(", i.rest), LAMBDA p :
    AndThen(Cut(ExprList(p.rest)), LAMBDA a :
    AndThen(Cut(Tag(")", a.rest)), LAMBDA c :
    POk(c.rest, FunctionCallExpr(i.val, a.val))))))

\* Record::parse: field (parser.rs:93-98)
Field(input) ==
    AndThen(ParseIdent(input), LAMBDA i :
    AndThen(Tag(":", i.rest), LAMBDA c :
    AndThen(ExprParse(c.rest), LAMBDA e :
    POk(e.rest, [name |-> i.val, expr |-> e.val]))))

\* separated_list0(tag(","), field)
FieldList(s) == ListElem(s, << >>, Field(s), FieldListMore)

FieldListMore(s, acc) ==
    ListSep(s, acc, Tag(",", s), LAMBDA r :
    ListElem(s, acc, Field(r), FieldListMore))

\* Record::parse (parser.rs:92-103)
RecordParse(input) ==
    AndThen(Tag("{", input), LAMBDA o :
    AndThen(Cut(FieldList(o.rest)), LAMBDA fs :
    AndThen(Cut(Tag("}", fs.rest)), LAMBDA c :
    POk(c.rest, fs.val))))

\* map_res(digit1, str::parse)
NumParse(s) ==
    LET n == PrefixLen(s, Digit) IN
    IF n = 0 THEN PError ELSE POk(Drop(s, n), Take(s, n))

\* Literal::parse (parser.rs:77-82): the alternatives, on the trimmed input
LiteralAlt(s) ==
    OrElse(Map(NumParse(s), NumLit),
    OrElse(Map(RecordParse(s), RecordLit),
    OrElse(Map(StringLiteral(s), StringLit),
           Map(ParseIdent(s), IdentLit))))

\* Literal::parse (parser.rs:75-83)
LiteralParse(input) == LiteralAlt(Trim(input))

\* Expr::parse (parser.rs:57-63)
ExprParse(input) ==
    OrElse(FunctionCall(input),
    OrElse(Map(LiteralParse(input), LiteralExpr),
           Map(ParseIdent(input), IdentExpr)))

\* delimited(multispace0, tag("="), multispace0)
EqualsSign(s) ==
    AndThen(Tag("=", SkipSpace(s)), LAMBDA e : POk(SkipSpace(e.rest), "="))

\* assignment (parser.rs:106-111), mapped to Line::Assignment
Assignment(input) ==
    AndThen(ParseIdent(input), LAMBDA i :
    AndThen(EqualsSign(i.rest), LAMBDA q :
    AndThen(Cut(ExprParse(q.rest)), LAMBDA v :
    POk(v.rest, AssignmentLine(i.val, v.val)))))

\* Line::parse (parser.rs:17-23)
LineParse(input) ==
    OrElse(Map(Builtin(input), BuiltinLine),
    OrElse(Assignment(input),
           Map(ExprParse(input), ExprLine)))

\* the input is any sequence of at most MaxLen characters of Alphabet
ParseInit ==
    /\ RuntimeNew({<<"i", "f">>, <<"i", "r">>})
    /\ \E n \in 0..MaxLen : \E l \in [1..n -> Alphabet] :
          query = [op |-> "parse", input |-> l]
    /\ answer = NoAnswer

\* Line::parse(input)
LineParseCall ==
    /\ query.op = "parse"
    /\ query' = [query EXCEPT !.op = "parsed"]
    /\ answer' = LineParse(query.input)
    /\ UNCHANGED <<component, linker, store, instance, donors, guard, pc, cur, hist, last>>

ParseNext == LineParseCall

ParseSpec == ParseInit /\ [][ParseNext]_vars

(***************************************************************************)
(* Commitment of the parser, under ParseSpec.                              *)
(***************************************************************************)
\* the line starts with an identifier and `(`, and what follows is not an
\* argument list closed by `)`
BadCall(input) ==
    LET i == ParseIdent(input)
        p == Tag("(", i.rest)
        a == ExprList(p.rest)
    IN  /\ i.kind = "Ok" /\ p.kind = "Ok"
        /\ (a.kind # "Ok" \/ Tag(")", a.rest).kind # "Ok")

\* the line starts with an identifier and `=`, and what follows is not an
\* expression
BadAssignment(input) ==
    LET i == ParseIdent(input)
        q == EqualsSign(i.rest)
    IN  /\ i.kind = "Ok" /\ q.kind = "Ok"
        /\ ExprParse(q.rest).kind # "Ok"

\* Well-formed expressions written without blanks, each with its tree:
\* identifiers and strings, and calls of up to two arguments.
RefAtoms ==
    {[str |-> <<"a">>, tree |-> LiteralExpr(IdentLit(<<"a">>))],
     [str |-> <<Quote, "a", Quote>>, tree |-> LiteralExpr(StringLit(<<"a">>))],
     [str |-> <<Quote, Quote>>, tree |-> LiteralExpr(StringLit(<< >>))]}

RefCalls(exprs) ==
    {[str |-> <<"a", "(", ")">>, tree |-> FunctionCallExpr(<<"a">>, << >>)]}
    \cup {[str |-> <<"a", "(">> \o e.str \o <<")">>,
           tree |-> FunctionCallExpr(<<"a">>, <<e.tree>>)] : e \in exprs}
    \cup {[str |-> <<"a", "(">> \o e.str \o <<",">> \o f.str \o <<")">>,
           tree |-> FunctionCallExpr(<<"a">>, <<e.tree, f.tree>>)] :
             e \in exprs, f \in exprs}

RefExprs == RefAtoms \cup RefCalls(RefAtoms)

\* well-formed lines no longer than MaxLen: calls, nested once, and
\* assignments of an expression, with or without blanks around `=`
RefLines ==
    {l \in {[str |-> e.str, tree |-> ExprLine(e.tree)] : e \in RefCalls(RefExprs)}
           \cup {[str |-> <<"a", "=">> \o e.str,
                  tree |-> AssignmentLine(<<"a">>, e.tree)] :
                    e \in RefExprs \cup RefCalls(RefExprs)}
           \cup {[str |-> <<"a", " ", "=", " ">> \o e.str,
                  tree |-> AssignmentLine(<<"a">>, e.tree)] :
                    e \in RefExprs} :
        Len(l.str) <= MaxLen}

\* C21: once Line::parse has recognised a call or an assignment it is
\* committed: a line that starts with an identifier and `(` or `=` and does
\* not continue with an argument list closed by `)`, or with an expression,
\* is a Failure; and a well-formed call, nested or not, or assignment
\* parses to its tree with nothing left over.
C21_ParserCommits ==
    query.op = "parsed" =>
        /\ (BadCall(query.input) \/ BadAssignment(query.input))
              => answer.kind = "Failure"
        /\ \A l \in RefLines :
              query.input = l.str => answer = POk(<< >>, l.tree)

\* a call whose arguments are not expressions has been parsed, to a Failure
C21_Witness ==
    /\ query.op = "parsed"
    /\ query.input = <<"a", "(", "%", ")">>
    /\ answer = PFailure

====
